---------------------------- MODULE Spec2Model ----------------------------
(***************************************************************************)
(* grafana-feishu: a relay that turns a Grafana webhook notification into  *)
(* Feishu cards.  The repository holds two builds of the same program:     *)
(*   "grouped"  : src/server.go          (one card per notification)       *)
(*   "peralert" : src/unnamed/part_000   (one card per alert)              *)
(* Texts that the code inspects character by character (URLs, the model's  *)
(* reply, descriptions) are sequences of characters; titles and statuses   *)
(* are only compared as a whole and are plain strings.                     *)
(***************************************************************************)
EXTENDS Naturals, Sequences, FiniteSets, TLC

VARIABLES
    variant,            \* which build is running
    env,                \* the process environment read by main
    aiReplies,          \* reply contents the chat-completion endpoint may give
    inbound,            \* the inbound HTTP request (path parameter, body)
    feishuWebhookBase,  \* main: var feishuWebhookBase
    defaultBotUUID,     \* main: var defaultBotUUID
    openaiToken,        \* main: openaiToken
    pc,                 \* position of main / of the POST handler
    notification,       \* handler: the parsed Notification
    idx,                \* handler: position of the range loop over Alerts
    title,              \* handler: title
    description,        \* handler: description
    color,              \* handler: color
    calls,              \* outbound calls made so far, in order
    opened,             \* response bodies obtained from http.DefaultClient.Do
    closed,             \* response bodies closed by the deferred Close calls
    response            \* what the inbound request was answered with

vars == <<variant, env, aiReplies, inbound, feishuWebhookBase, defaultBotUUID,
          openaiToken, pc, notification, idx, title, description, color,
          calls, opened, closed, response>>

world == <<variant, env, aiReplies, inbound>>
config == <<feishuWebhookBase, defaultBotUUID, openaiToken>>

(***************************************************************************)
(* Bounds of the model.                                                    *)
(***************************************************************************)
MaxAlerts == 2
MaxBodyLen == 2

(***************************************************************************)
(* Program constants.                                                      *)
(***************************************************************************)
UuidLen == 36

Variants == {"grouped", "peralert"}

defaultWebhookBase ==
    <<"h", "t", "t", "p", "s", ":", "/", "/", "o", "p", "e", "n", ".", "f",
      "e", "i", "s", "h", "u", ".", "c", "n", "/", "o", "p", "e", "n", "-",
      "a", "p", "i", "s", "/", "b", "o", "t", "/", "v", "2", "/", "h", "o",
      "o", "k">>

LowerDigitDash ==
    {"-", "a", "b", "c", "d", "e", "f", "g", "h", "i", "j", "k", "l", "m",
     "n", "o", "p", "q", "r", "s", "t", "u", "v", "w", "x", "y", "z",
     "0", "1", "2", "3", "4", "5", "6", "7", "8", "9"}

\* The backquote character, which a string literal of this language cannot
\* hold.
Backtick == "<backquote>"

FenceCutset == {Backtick, "m", "a", "r", "k", "d", "o", "w", "n", "\n"}

BacktickCutset == {Backtick}

\* The control characters among the characters of the model.
ControlCharacters == {"\n"}

NoTitle == "[No Title]"

NoDescription ==
    <<"[", "N", "o", " ", "d", "e", "s", "c", "r", "i", "p", "t", "i", "o",
      "n", "]">>

FailedPrefix ==
    <<"O", "p", "e", "n", "A", "I", " ", "A", "P", "I", " ", "c", "a", "l",
      "l", " ", "f", "a", "i", "l", "e", "d", ":", " ">>

(***************************************************************************)
(* Library functions, computed as the Go standard library computes them.   *)
(***************************************************************************)
RECURSIVE TrimLeft(_, _)
TrimLeft(s, cutset) ==
    IF s # <<>> /\ Head(s) \in cutset THEN TrimLeft(Tail(s), cutset) ELSE s

RECURSIVE TrimRight(_, _)
TrimRight(s, cutset) ==
    IF s # <<>> /\ s[Len(s)] \in cutset
    THEN TrimRight(SubSeq(s, 1, Len(s) - 1), cutset)
    ELSE s

Trim(s, cutset) == TrimRight(TrimLeft(s, cutset), cutset)

\* A candidate split <<k, sl, u>> of s for ^(.*)/?([-a-z0-9]{36})?$ :
\* (.*) takes s[1..k], /? takes sl characters, the last group u * UuidLen.
SplitMatches(s, c) ==
    LET k == c[1]
        sl == c[2]
        u == c[3]
    IN /\ \A j \in 1..k : s[j] # "\n"
       /\ sl = 1 => (k + 1 <= Len(s) /\ s[k + 1] = "/")
       /\ u = 1 => /\ k + sl + UuidLen <= Len(s)
                   /\ \A j \in 1..UuidLen : s[k + sl + j] \in LowerDigitDash
       /\ k + sl + u * UuidLen = Len(s)

\* Leftmost-first preference: a greedy star prefers more, ? prefers to match.
Preferred(c, d) ==
    \/ c[1] > d[1]
    \/ c[1] = d[1] /\ c[2] > d[2]
    \/ c[1] = d[1] /\ c[2] = d[2] /\ c[3] > d[3]

\* regexp.FindStringSubmatch: <<>> (nil) without a match, else the whole
\* match followed by the two groups (Go's matches[i] is index i + 1 here).
FindStringSubmatch(s) ==
    LET cands == {c \in (0..Len(s)) \X {0, 1} \X {0, 1} : SplitMatches(s, c)}
    IN IF cands = {} THEN <<>>
       ELSE LET best == CHOOSE c \in cands :
                            \A d \in cands : d = c \/ Preferred(c, d)
                from == best[1] + best[2]
            IN <<s, SubSeq(s, 1, best[1]),
                 IF best[3] = 1 THEN SubSeq(s, from + 1, from + UuidLen)
                 ELSE <<>> >>

\* v, ok := m[key] on a map[string]string; zero is the type's zero value.
Lookup(m, key, zero) ==
    IF key \in DOMAIN m THEN [v |-> m[key], ok |-> TRUE]
    ELSE [v |-> zero, ok |-> FALSE]

\* c.Params("botUUID", defaultValue)
Params(req, defaultValue) ==
    IF req.botUUID = <<>> THEN defaultValue ELSE req.botUUID

(***************************************************************************)
(* main: configuration.                                                    *)
(***************************************************************************)
\* The webhook configuration main derives from the environment; panic when
\* it indexes the nil result of FindStringSubmatch.
WebhookConfig(e) ==
    IF e.FEISHU_WEBHOOK # <<>>
    THEN LET matches == FindStringSubmatch(e.FEISHU_WEBHOOK)
         IN IF matches = <<>>
            THEN [panic |-> TRUE, base |-> <<>>, uuid |-> <<>>]
            ELSE [panic |-> FALSE, base |-> matches[2], uuid |-> matches[3]]
    ELSE LET trimmed == TrimRight(e.FEISHU_WEBHOOK_BASE, {"/"})
         IN [panic |-> FALSE,
             base |-> IF trimmed = <<>> THEN defaultWebhookBase ELSE trimmed,
             uuid |-> e.FEISHU_WEBHOOK_UUID]

Startup ==
    /\ pc = "boot"
    /\ LET cfg == WebhookConfig(env)
       IN /\ feishuWebhookBase' = cfg.base
          /\ defaultBotUUID' = cfg.uuid
          /\ pc' = IF cfg.panic THEN "exited" ELSE "listening"
    /\ openaiToken' = env.OPENAI_API_KEY
    /\ UNCHANGED <<world, notification, idx, title, description, color,
                   calls, opened, closed, response>>

(***************************************************************************)
(* The POST handler.                                                       *)
(***************************************************************************)
\* c.BodyParser into the build's Notification struct: the per-alert build
\* declares only Alerts, so every other field of the body is dropped.
BodyParser(v, body) ==
    IF v = "grouped"
    THEN [Status |-> body.status,
          CommonAnnotations |-> body.commonAnnotations,
          Title |-> body.title,
          Message |-> body.message,
          Alerts |-> body.alerts]
    ELSE [Alerts |-> body.alerts]

GroupedTitle(n) ==
    LET t == Lookup(n.CommonAnnotations, "summary", "")
    IN IF t.ok THEN t.v ELSE n.Title

GroupedDescription(n) ==
    LET d == Lookup(n.CommonAnnotations, "description", <<>>)
    IN IF d.ok THEN d.v ELSE n.Message

AlertTitle(alert) ==
    LET t == Lookup(alert.annotations, "summary", "")
        l == Lookup(alert.labels, "alertname", "")
    IN IF t.ok THEN t.v ELSE IF l.ok THEN l.v ELSE NoTitle

AlertDescription(alert) ==
    LET d == Lookup(alert.annotations, "description", <<>>)
    IN IF d.ok THEN d.v ELSE NoDescription

\* A comparison with the wrong status: everything but "firing" is green.
StatusColorUnlessFiring(status) ==
    IF status = "firing" THEN "red" ELSE "green"

StatusColor(status) == IF status = "resolved" THEN "green" ELSE "red"

\* The description after a chat completion that returned (resp, err).
GroupedEnriched(old, reply) ==
    IF reply.err # <<>> THEN FailedPrefix \o reply.err
    ELSE Trim(Trim(reply.choices[1], FenceCutset), BacktickCutset)

AlertEnriched(old, reply) ==
    IF reply.err = <<>> THEN reply.choices[1] ELSE old

\* resp.Choices[0] on a reply without error and without choices.
IndexPanics(reply) == reply.err = <<>> /\ reply.choices = <<>>

FeishuWebhookURL(req) ==
    feishuWebhookBase \o <<"/">> \o Params(req, defaultBotUUID)

\* What CreateChatCompletion can return: an error (transport failure,
\* non-2xx status, undecodable body), or a decoded response with or
\* without choices.
ChatCompletions ==
    {[err |-> <<"E">>, choices |-> <<>>], [err |-> <<>>, choices |-> <<>>]}
    \cup {[err |-> <<>>, choices |-> <<r>>] : r \in aiReplies}

\* A return that skips the deferred Close calls.
ReturnWithoutClose(answer) ==
    /\ pc' = "done"
    /\ response' = answer
    /\ closed' = closed

\* The handler's return: deferred Close calls run, the framework answers.
Return(answer) ==
    /\ pc' = "done"
    /\ response' = answer
    /\ closed' = opened

\* A panic in the handler: deferred calls run, nothing recovers.
Panic ==
    /\ pc' = "exited"
    /\ response' = "none"
    /\ closed' = opened

BodyParserFails ==
    /\ pc = "listening"
    /\ ~inbound.wellFormed
    /\ Return("error")
    /\ UNCHANGED <<world, config, notification, idx, title, description,
                   color, calls, opened>>

Receive ==
    /\ pc = "listening"
    /\ inbound.wellFormed
    /\ notification' = BodyParser(variant, inbound.body)
    /\ IF variant = "peralert" /\ Len(notification'.Alerts) = 0
       THEN /\ Return("200")
            /\ idx' = idx
       ELSE /\ pc' = "derive"
            /\ idx' = 1
            /\ UNCHANGED <<response, closed>>
    /\ UNCHANGED <<world, config, title, description, color, calls,
                   opened>>

Derive ==
    /\ pc = "derive"
    /\ IF variant = "grouped"
       THEN /\ title' = GroupedTitle(notification)
            /\ description' = GroupedDescription(notification)
            /\ color' = StatusColor(notification.Status)
       ELSE /\ title' = AlertTitle(notification.Alerts[idx])
            /\ description' = AlertDescription(notification.Alerts[idx])
            /\ color' = color
    /\ pc' = IF openaiToken # "" THEN "enrich" ELSE "deliver"
    /\ UNCHANGED <<world, config, notification, idx, calls,
                   opened, closed, response>>

Enrich ==
    /\ pc = "enrich"
    /\ \E reply \in ChatCompletions :
        /\ calls' = Append(calls, [kind |-> "chat", alert |-> idx,
                                   user |-> description, reply |-> reply])
        /\ IF IndexPanics(reply)
           THEN /\ Panic
                /\ description' = description
           ELSE /\ description' =
                       IF variant = "grouped"
                       THEN GroupedEnriched(description, reply)
                       ELSE AlertEnriched(description, reply)
                /\ pc' = "deliver"
                /\ UNCHANGED <<response, closed>>
    /\ UNCHANGED <<world, config, notification, idx, title, color,
                   opened>>

\* The card built from the tuple; the per-alert build sets color here.
CardColor ==
    IF variant = "peralert"
    THEN StatusColor(notification.Alerts[idx].status)
    ELSE color

FeishuCard ==
    [title |-> title, template |-> CardColor, content |-> description]

\* After a delivered card: the grouped build answers, the range loop of
\* the per-alert build goes to the next alert or falls out of the loop.
AfterDelivery ==
    IF variant = "peralert" /\ idx < Len(notification.Alerts)
    THEN [pc |-> "derive", idx |-> idx + 1]
    ELSE [pc |-> "respond", idx |-> idx]

\* http.NewRequest returns a nil request for a URL that url.Parse rejects,
\* as it does one holding a control character; the error is not looked at
\* and request.Header.Set then dereferences nil.
NewRequestFails(url) == \E j \in 1..Len(url) : url[j] \in ControlCharacters

Deliver ==
    /\ pc = "deliver"
    /\ color' = CardColor
    /\ IF NewRequestFails(FeishuWebhookURL(inbound))
       THEN /\ Panic
            /\ UNCHANGED <<calls, opened, idx>>
       ELSE \E delivered \in BOOLEAN :
            /\ calls' = Append(calls, [kind |-> "post", alert |-> idx,
                                       url |-> FeishuWebhookURL(inbound),
                                       card |-> FeishuCard, ok |-> delivered])
            /\ IF delivered
               THEN /\ opened' = opened + 1
                    /\ pc' = AfterDelivery.pc
                    /\ idx' = AfterDelivery.idx
                    /\ UNCHANGED <<response, closed>>
               ELSE /\ Return("error")
                    /\ UNCHANGED <<opened, idx>>
    /\ UNCHANGED <<world, config, notification, title, description>>

Respond ==
    /\ pc = "respond"
    /\ Return("204")
    /\ UNCHANGED <<world, config, notification, idx, title, description,
                   color, calls, opened>>

(***************************************************************************)
(* Inputs.                                                                 *)
(***************************************************************************)
SeqsUpTo(S, n) == UNION {[1..k -> S] : k \in 0..n}

Statuses == {"", "firing", "resolved"}

CommonDescription == <<"c", "d">>
AlertDescriptionText == <<"a", "d">>
MessageText == <<"m", "s", "g">>

CommonAnnotationMaps ==
    {<<>>,
     "summary" :> "common summary",
     "description" :> CommonDescription,
     ("summary" :> "common summary") @@ ("description" :> CommonDescription)}

AlertAnnotationMaps ==
    {<<>>,
     "summary" :> "alert summary",
     "description" :> AlertDescriptionText,
     ("summary" :> "alert summary") @@ ("description" :> AlertDescriptionText)}

LabelMaps == {<<>>, "alertname" :> "alert name"}

AlertPool ==
    {[status |-> s, annotations |-> a, labels |-> l] :
        s \in Statuses, a \in AlertAnnotationMaps, l \in LabelMaps}

\* The notification-level fields of a body; an absent title or message
\* parses to the empty string.
TopPool ==
    {[status |-> s, commonAnnotations |-> ca, title |-> t, message |-> m] :
        s \in Statuses, ca \in CommonAnnotationMaps,
        t \in {"", "notification title"}, m \in {<<>>, MessageText}}

MakeBody(top, alerts) ==
    [status |-> top.status, commonAnnotations |-> top.commonAnnotations,
     title |-> top.title, message |-> top.message, alerts |-> alerts]

\* A firing alert that carries every field, and a notification that
\* carries every notification-level field.
FullAlert ==
    [status |-> "firing",
     annotations |-> ("summary" :> "alert summary")
                     @@ ("description" :> AlertDescriptionText),
     labels |-> "alertname" :> "alert name"]

LabelledAlert ==
    [status |-> "resolved", annotations |-> <<>>,
     labels |-> "alertname" :> "alert name"]

FullTop ==
    [status |-> "firing",
     commonAnnotations |-> ("summary" :> "common summary")
                           @@ ("description" :> CommonDescription),
     title |-> "notification title", message |-> MessageText]

EmptyTop ==
    [status |-> "", commonAnnotations |-> <<>>, title |-> "", message |-> <<>>]

\* Bodies sent to a build: every combination of the fields the build
\* reads, with samples of the fields it never reads.
Bodies(v) ==
    IF v = "grouped"
    THEN {MakeBody(top, alerts) :
             top \in TopPool,
             alerts \in SeqsUpTo({FullAlert, LabelledAlert}, MaxAlerts)}
    ELSE {MakeBody(top, alerts) :
             top \in {FullTop, EmptyTop},
             alerts \in SeqsUpTo(AlertPool, MaxAlerts)}

PathUUID == <<"p", "-", "1">>
ShortBase == <<"h", ":", "/", "x", "/", "h">>

MalformedRequest == [wellFormed |-> FALSE, botUUID |-> PathUUID, body |-> <<>>]

Requests(v, paths) ==
    {MalformedRequest}
    \cup {[wellFormed |-> TRUE, botUUID |-> p, body |-> b] :
             p \in paths, b \in Bodies(v)}

PlainReply == <<"#", " ", "X">>

Env(webhook, base, uuid, key) ==
    [FEISHU_WEBHOOK |-> webhook, FEISHU_WEBHOOK_BASE |-> base,
     FEISHU_WEBHOOK_UUID |-> uuid, OPENAI_API_KEY |-> key]

\* The handler's locals before a request and main's before it has run.
InitLocals ==
    /\ feishuWebhookBase = <<>>
    /\ defaultBotUUID = <<>>
    /\ openaiToken = ""
    /\ pc = "boot"
    /\ notification = [Alerts |-> <<>>]
    /\ idx = 0
    /\ title = ""
    /\ description = <<>>
    /\ color = ""
    /\ calls = <<>>
    /\ opened = 0
    /\ closed = 0
    /\ response = "none"

Init ==
    /\ variant \in Variants
    /\ env \in {Env(<<>>, ShortBase, <<>>, key) : key \in {"", "sk"}}
    /\ aiReplies = {PlainReply}
    /\ inbound \in Requests(variant, {PathUUID})
    /\ InitLocals

(***************************************************************************)
(* Configuration inputs: the ways the README documents to name the hook.   *)
(***************************************************************************)
SampleUUID ==
    [i \in 1..UuidLen |->
        IF i \in {9, 14, 19, 24} THEN "-" ELSE IF i % 2 = 0 THEN "a" ELSE "7"]

EnvUUID == <<"u", "-", "2">>

ConfigEnvs ==
    {Env(webhook, base, uuid, key) :
        webhook \in {<<>>, ShortBase, ShortBase \o <<"/">>,
                     ShortBase \o <<"/">> \o SampleUUID,
                     ShortBase \o <<"\n">>},
        base \in {<<>>, ShortBase, ShortBase \o <<"/">>,
                  ShortBase \o <<"/", "/">>, ShortBase \o <<"\n", "x">>},
        uuid \in {<<>>, EnvUUID},
        key \in {"", "sk"}}

SampleBodies ==
    {MakeBody(FullTop, alerts) :
        alerts \in {<<>>, <<FullAlert>>, <<FullAlert, LabelledAlert>>}}

InitConfig ==
    /\ variant \in Variants
    /\ env \in ConfigEnvs
    /\ aiReplies = {PlainReply}
    /\ inbound \in {MalformedRequest}
                   \cup {[wellFormed |-> TRUE, botUUID |-> p, body |-> b] :
                            p \in {<<>>, PathUUID}, b \in SampleBodies}
    /\ InitLocals

(***************************************************************************)
(* Reply inputs: a text of at most MaxBodyLen characters, bare or put      *)
(* between an opening fence line and a closing fence line.                 *)
(***************************************************************************)
Fence == <<Backtick, Backtick, Backtick>>
FenceLine == Fence \o <<"\n">>
MarkdownFenceLine == Fence \o <<"m", "a", "r", "k", "d", "o", "w", "n", "\n">>
ClosingFence == <<"\n">> \o Fence

ReplyAlphabet == {"#", "X", "m", "\n", Backtick}

FencedReplies ==
    {open \o body \o close :
        open \in {<<>>, FenceLine, MarkdownFenceLine},
        body \in SeqsUpTo(ReplyAlphabet, MaxBodyLen),
        close \in {<<>>, ClosingFence}}

InitTrim ==
    /\ variant \in Variants
    /\ env \in {Env(<<>>, ShortBase, <<>>, key) : key \in {"", "sk"}}
    /\ aiReplies = FencedReplies
    /\ inbound \in {MalformedRequest}
                   \cup {[wellFormed |-> TRUE, botUUID |-> PathUUID,
                          body |-> MakeBody(FullTop, <<FullAlert>>)]}
    /\ InitLocals

Next ==
    \/ Startup
    \/ BodyParserFails
    \/ Receive
    \/ Derive
    \/ Enrich
    \/ Deliver
    \/ Respond

Spec == Init /\ [][Next]_vars

SpecConfig == InitConfig /\ [][Next]_vars

SpecTrim == InitTrim /\ [][Next]_vars

(***************************************************************************)
(* Properties.                                                             *)
(***************************************************************************)
body == inbound.body

PostIndexes == {j \in 1..Len(calls) : calls[j].kind = "post"}
Delivered == {j \in PostIndexes : calls[j].ok}
ChatIndexes == {j \in 1..Len(calls) : calls[j].kind = "chat"}
Ended == pc \in {"done", "exited"}

\* C1: whenever commonAnnotations of the inbound body holds "summary", the
\* title of every card posted for the request is that value, in both builds.
C1_TitleIsCommonSummary ==
    \A j \in Delivered :
        (inbound.wellFormed /\ "summary" \in DOMAIN body.commonAnnotations)
        => calls[j].card.title = body.commonAnnotations["summary"]

\* The alerts whose alertname a card's title may be taken from: the alert
\* the card is for in the per-alert build, any alert in the grouped build.
NamedAlerts(j) ==
    {i \in 1..Len(body.alerts) :
        /\ "alertname" \in DOMAIN body.alerts[i].labels
        /\ variant = "peralert" => i = calls[j].alert}

\* C2: when neither commonAnnotations nor any alert's annotations hold
\* "summary" and an alert has the label "alertname", the card title is that
\* label's value, in both builds.
C2_TitleIsAlertname ==
    \A j \in Delivered :
        (/\ "summary" \notin DOMAIN body.commonAnnotations
         /\ \A i \in 1..Len(body.alerts) :
                "summary" \notin DOMAIN body.alerts[i].annotations
         /\ NamedAlerts(j) # {})
        => \E i \in NamedAlerts(j) :
               calls[j].card.title = body.alerts[i].labels["alertname"]

\* The description chain of the design for the card of alert i.
ChainDescription(i) ==
    IF "description" \in DOMAIN body.commonAnnotations
    THEN body.commonAnnotations["description"]
    ELSE IF i <= Len(body.alerts)
            /\ "description" \in DOMAIN body.alerts[i].annotations
    THEN body.alerts[i].annotations["description"]
    ELSE IF body.message # <<>> THEN body.message
    ELSE NoDescription

\* C3: without an API key the description of a card is the first present
\* of commonAnnotations.description, the alert's annotations.description and
\* message, else "[No description]", and is never empty.
C3_DescriptionChain ==
    \A j \in Delivered :
        env.OPENAI_API_KEY = ""
        => /\ calls[j].card.content = ChainDescription(calls[j].alert)
           /\ calls[j].card.content # <<>>

\* C4: in the per-alert build a parsed notification without alerts makes no
\* outbound call and is answered 204.
C4_EmptyAlertsAnswered204 ==
    (/\ variant = "peralert"
     /\ inbound.wellFormed
     /\ body.alerts = <<>>
     /\ Ended)
    => calls = <<>> /\ response = "204"

\* A full hook URL: a base, a slash and a bot id of UuidLen characters.
IsFullHook(s) ==
    /\ Len(s) > UuidLen + 1
    /\ s[Len(s) - UuidLen] = "/"
    /\ \A j \in 1..UuidLen : s[Len(s) - UuidLen + j] \in LowerDigitDash
    /\ \A j \in 1..Len(s) : s[j] # "\n"

\* C5: a FEISHU_WEBHOOK of the form B/U is split into base B and default bot
\* id U, so a request without a bot id in its path is posted to B/U; and
\* every card goes to base/botIdentifier, the path's identifier if present.
C5_FullHookSplit ==
    /\ (pc = "listening" /\ IsFullHook(env.FEISHU_WEBHOOK))
       => feishuWebhookBase \o <<"/">> \o defaultBotUUID = env.FEISHU_WEBHOOK
    /\ \A j \in PostIndexes :
        /\ calls[j].url = feishuWebhookBase \o <<"/">>
                          \o (IF inbound.botUUID # <<>> THEN inbound.botUUID
                              ELSE defaultBotUUID)
        /\ (IsFullHook(env.FEISHU_WEBHOOK) /\ inbound.botUUID = <<>>)
           => calls[j].url = env.FEISHU_WEBHOOK

HasPrefix(s, p) == Len(s) >= Len(p) /\ SubSeq(s, 1, Len(p)) = p
HasSuffix(s, p) == Len(s) >= Len(p) /\ SubSeq(s, Len(s) - Len(p) + 1, Len(s)) = p

\* A reply with its surrounding fence wrapper removed: an opening fence
\* line, tagged markdown or not, and a closing fence line.
WithoutOpening(s, open) == SubSeq(s, Len(open) + 1, Len(s))
Unwrapped(s, open) ==
    SubSeq(s, Len(open) + 1, Len(s) - Len(ClosingFence))
IsWrappedBy(s, open) ==
    HasPrefix(s, open) /\ HasSuffix(WithoutOpening(s, open), ClosingFence)
Unfenced(s) ==
    IF IsWrappedBy(s, MarkdownFenceLine) THEN Unwrapped(s, MarkdownFenceLine)
    ELSE IF IsWrappedBy(s, FenceLine) THEN Unwrapped(s, FenceLine)
    ELSE s

\* The chat completion that has just succeeded, if the last call is one.
JustEnriched ==
    /\ calls # <<>>
    /\ calls[Len(calls)].kind = "chat"
    /\ calls[Len(calls)].reply.err = <<>>
    /\ calls[Len(calls)].reply.choices # <<>>

\* C6: after a successful enrichment the description is the reply with only
\* its surrounding fence wrapper removed; a reply without one is unchanged.
C6_OnlyFenceRemoved ==
    JustEnriched
    => description = Unfenced(calls[Len(calls)].reply.choices[1])

\* The status a card's color is derived from.
RelevantStatus(j) ==
    IF variant = "grouped" THEN body.status
    ELSE body.alerts[calls[j].alert].status

\* C7: the template of every card is green exactly when the relevant status
\* is "resolved" and red otherwise, whatever the enrichment did.
C7_ColorFollowsStatus ==
    \A j \in PostIndexes :
        /\ calls[j].card.template \in {"green", "red"}
        /\ calls[j].card.template = "green" <=> RelevantStatus(j) = "resolved"

C7_Witness ==
    /\ variant = "peralert"
    /\ \E j \in PostIndexes, k \in PostIndexes, c \in ChatIndexes :
        /\ calls[j].card.template = "green"
        /\ calls[k].card.template = "red"
        /\ RelevantStatus(k) = ""
        /\ calls[c].reply.err # <<>>

FailedChat(j) ==
    calls[j].kind = "chat"
    /\ (calls[j].reply.err # <<>> \/ calls[j].reply.choices = <<>>)

\* C8: a failed enrichment call (an error, or an answer without choices)
\* never ends the handler: the card of that alert is posted next.
C8_EnrichmentFailureNonFatal ==
    \A j \in 1..Len(calls) :
        FailedChat(j)
        => IF j = Len(calls) THEN pc = "deliver"
           ELSE /\ calls[j + 1].kind = "post"
                /\ calls[j + 1].alert = calls[j].alert

\* C9: in the per-alert build, n >= 1 alerts and no transport failure give
\* exactly n posts, the i-th for the i-th alert, each after that alert's
\* enrichment call and before the next alert's, and then 204.
C9_OnePostPerAlertInOrder ==
    (/\ variant = "peralert"
     /\ inbound.wellFormed
     /\ \A j \in PostIndexes : calls[j].ok)
    => /\ \A j \in 1..Len(calls) :
            /\ j > 1 => calls[j - 1].alert <= calls[j].alert
            /\ (j > 1 /\ calls[j].alert > calls[j - 1].alert)
               => calls[j - 1].kind = "post"
            /\ calls[j].kind = "post"
               => /\ Cardinality({k \in PostIndexes : k <= j}) = calls[j].alert
                  /\ calls[j].card.title = AlertTitle(body.alerts[calls[j].alert])
                  /\ calls[j].card.template
                         = StatusColor(body.alerts[calls[j].alert].status)
       /\ response = "204"
          => Cardinality(PostIndexes) = Len(body.alerts)
       /\ (Ended /\ Len(body.alerts) >= 1)
          => /\ Cardinality(PostIndexes) = Len(body.alerts)
             /\ response = "204"

\* C10: a card POST that fails in transport ends the request with an error
\* and is never retried; the cards of the alerts before it were delivered,
\* nothing is attempted for the alerts after it, and every response body
\* opened before it is closed when the handler has returned.
C10_TransportFailureFailsRequest ==
    \A j \in PostIndexes :
        ~calls[j].ok
        => /\ j = Len(calls)
           /\ pc = "done"
           /\ response = "error"
           /\ \A i \in 1..(calls[j].alert - 1) :
                  Cardinality({k \in PostIndexes :
                                  calls[k].alert = i /\ calls[k].ok}) = 1
           /\ \A k \in 1..Len(calls) : calls[k].alert <= calls[j].alert
           /\ Cardinality({k \in PostIndexes : calls[k].alert = calls[j].alert}) = 1
           /\ opened = calls[j].alert - 1
           /\ closed = opened

C10_Witness ==
    /\ variant = "peralert"
    /\ \E j \in PostIndexes :
        /\ ~calls[j].ok
        /\ calls[j].alert = 2
    /\ opened = 1
    /\ closed = 1
    /\ response = "error"

=============================================================================
